---- MODULE Spec2Model ----
(***************************************************************************)
(* Voice-command pipeline of serenade-whisperai:                           *)
(*   src/src/core/commands/command_parser.py     CommandParser             *)
(*   src/src/core/commands/command_processor.py  CommandProcessor          *)
(* Texts are TLA+ strings; a one-character string stands for a character.  *)
(* Python's Optional[T] is modelled as a sequence of length 0 (None) or 1. *)
(***************************************************************************)
EXTENDS Integers, Sequences, FiniteSets, TLC

None == <<>>
Some(v) == <<v>>
Val(o) == o[1]

(***************************************************************************)
(* str helpers (ASCII subset of Python's str methods).                     *)
(***************************************************************************)
CharAt(s, i) == SubSeq(s, i, i)
Rest(s, i) == SubSeq(s, i, Len(s))

UpperChars == "ABCDEFGHIJKLMNOPQRSTUVWXYZ"
LowerChars == "abcdefghijklmnopqrstuvwxyz"
Whitespace == {" ", "\t", "\n", "\r"}
Digits == "0123456789"

IndexIn(ch, alphabet) ==
    LET hits == {i \in 1..Len(alphabet) : CharAt(alphabet, i) = ch}
    IN IF hits = {} THEN 0 ELSE CHOOSE i \in hits : TRUE

\* the lower-case letter of each upper-case letter
ToLower ==
    [ch \in {CharAt(UpperChars, i) : i \in 1..Len(UpperChars)} |->
        CharAt(LowerChars, IndexIn(ch, UpperChars))]

lower_char(ch) == IF ch \in DOMAIN ToLower THEN ToLower[ch] ELSE ch

\* str.lower()
RECURSIVE lower(_)
lower(s) == IF s = "" THEN "" ELSE lower_char(CharAt(s, 1)) \o lower(Rest(s, 2))

RECURSIVE lstrip(_)
lstrip(s) == IF s # "" /\ CharAt(s, 1) \in Whitespace THEN lstrip(Rest(s, 2)) ELSE s

RECURSIVE rstrip(_)
rstrip(s) ==
    IF s # "" /\ CharAt(s, Len(s)) \in Whitespace
    THEN rstrip(SubSeq(s, 1, Len(s) - 1)) ELSE s

\* str.strip()
strip(s) == rstrip(lstrip(s))

DigitChars == {CharAt(Digits, i) : i \in 1..Len(Digits)}

IsDigit(ch) == ch \in DigitChars

\* int(s) for a string of decimal digits; any other string raises ValueError
ValidInt(s) == s # "" /\ \A i \in 1..Len(s) : IsDigit(CharAt(s, i))

RECURSIVE int(_)
int(s) ==
    IF s = "" THEN 0
    ELSE 10 * int(SubSeq(s, 1, Len(s) - 1)) + (IndexIn(CharAt(s, Len(s)), Digits) - 1)

\* index of the first occurrence of character ch in s at or after i, 0 if none
RECURSIVE Find(_, _, _)
Find(s, ch, i) ==
    IF i > Len(s) THEN 0 ELSE IF CharAt(s, i) = ch THEN i ELSE Find(s, ch, i + 1)

(***************************************************************************)
(* CommandParser.PATTERNS: regex text -> (action, param_type), in the      *)
(* insertion order of the dict literal.                                    *)
(***************************************************************************)
PATTERNS == <<
    <<"go to line (\\d+)", "goto_line", Some("line_number")>>,
    <<"go to function (.+)", "goto_function", Some("target")>>,
    <<"go to class (.+)", "goto_class", Some("target")>>,
    <<"go to method (.+)", "goto_method", Some("target")>>,
    <<"next function", "next_function", None>>,
    <<"previous function", "prev_function", None>>,
    <<"next line", "next_line", None>>,
    <<"previous line", "prev_line", None>>,
    <<"scroll (up|down)", "scroll", Some("target")>>,
    <<"page (up|down)", "page", Some("target")>>,
    <<"add function (.+)", "add_function", Some("target")>>,
    <<"add class (.+)", "add_class", Some("target")>>,
    <<"add method (.+)", "add_method", Some("target")>>,
    <<"create function (.+)", "add_function", Some("target")>>,
    <<"create class (.+)", "add_class", Some("target")>>,
    <<"delete line", "delete_line", None>>,
    <<"delete function (.+)", "delete_function", Some("target")>>,
    <<"delete class (.+)", "delete_class", Some("target")>>,
    <<"remove line", "delete_line", None>>,
    <<"insert (.+)", "insert", Some("value")>>,
    <<"type (.+)", "type", Some("value")>>,
    <<"add comment (.+)", "add_comment", Some("value")>>,
    <<"select line (\\d+)", "select_line", Some("line_number")>>,
    <<"select function (.+)", "select_function", Some("target")>>,
    <<"select class (.+)", "select_class", Some("target")>>,
    <<"select all", "select_all", None>>,
    <<"select word", "select_word", None>>,
    <<"select line", "select_current_line", None>>,
    <<"change (.+) to (.+)", "change", Some("target_value")>>,
    <<"rename (.+) to (.+)", "rename", Some("target_value")>>,
    <<"replace (.+) with (.+)", "replace", Some("target_value")>>,
    <<"copy", "copy", None>>,
    <<"cut", "cut", None>>,
    <<"paste", "paste", None>>,
    <<"duplicate line", "duplicate_line", None>>,
    <<"copy line", "copy_line", None>>,
    <<"undo", "undo", None>>,
    <<"redo", "redo", None>>,
    <<"save file", "save", None>>,
    <<"save", "save", None>>,
    <<"save as (.+)", "save_as", Some("value")>>,
    <<"open file (.+)", "open_file", Some("value")>>,
    <<"close file", "close_file", None>>,
    <<"new file", "new_file", None>>,
    <<"find (.+)", "find", Some("value")>>,
    <<"search (.+)", "search", Some("value")>>,
    <<"find next", "find_next", None>>,
    <<"find previous", "find_previous", None>>,
    <<"format document", "format_document", None>>,
    <<"format selection", "format_selection", None>>,
    <<"indent", "indent", None>>,
    <<"unindent", "unindent", None>>,
    <<"comment out", "comment_out", None>>,
    <<"uncomment", "uncomment", None>>
>>

(***************************************************************************)
(* re.compile for the regex subset the table uses: literal text and the    *)
(* capture groups (\d+), (.+) and (a|b).  A compiled regex is a sequence   *)
(* of elements.                                                            *)
(***************************************************************************)
RECURSIVE SplitAlt(_)
SplitAlt(body) ==
    LET bar == Find(body, "|", 1)
    IN IF bar = 0 THEN <<body>>
       ELSE <<SubSeq(body, 1, bar - 1)>> \o SplitAlt(Rest(body, bar + 1))

Group(body) ==
    IF body = "\\d+" THEN [kind |-> "digits", text |-> "", alts |-> <<>>]
    ELSE IF body = ".+" THEN [kind |-> "any", text |-> "", alts |-> <<>>]
    ELSE [kind |-> "alt", text |-> "", alts |-> SplitAlt(body)]

RECURSIVE re_compile(_)
re_compile(pattern) ==
    LET open == Find(pattern, "(", 1)
        close == Find(pattern, ")", 1)
    IN IF pattern = "" THEN <<>>
       ELSE IF open = 0 THEN <<[kind |-> "lit", text |-> pattern, alts |-> <<>>]>>
       ELSE (IF open = 1 THEN <<>>
             ELSE <<[kind |-> "lit", text |-> SubSeq(pattern, 1, open - 1), alts |-> <<>>]>>)
            \o <<Group(SubSeq(pattern, open + 1, close - 1))>>
            \o re_compile(Rest(pattern, close + 1))

\* the compiled list in the reverse of the table's order
compiled_patterns_Reversed ==
    [i \in 1..Len(PATTERNS) |->
        [pattern |-> re_compile(PATTERNS[Len(PATTERNS) + 1 - i][1]),
         action |-> PATTERNS[Len(PATTERNS) + 1 - i][2],
         param_type |-> PATTERNS[Len(PATTERNS) + 1 - i][3]]]

\* CommandParser.__init__: one (compiled regex, action, param_type) per entry
compiled_patterns ==
    [i \in 1..Len(PATTERNS) |->
        [pattern |-> re_compile(PATTERNS[i][1]),
         action |-> PATTERNS[i][2],
         param_type |-> PATTERNS[i][3]]]

(***************************************************************************)
(* Pattern.match(text) under re.IGNORECASE: anchored at position 1, the    *)
(* text after the match is free.  Quantifiers are greedy and backtrack.    *)
(* The result is None or Some(match.groups()).                             *)
(***************************************************************************)
InClass(ch, kind) == IF kind = "digits" THEN IsDigit(ch) ELSE ch # "\n"

\* length of the longest run of characters of the class starting at pos
RECURSIVE Run(_, _, _)
Run(text, pos, kind) ==
    IF pos > Len(text) \/ ~InClass(CharAt(text, pos), kind) THEN 0
    ELSE 1 + Run(text, pos + 1, kind)

\* the literal, letter case aside, is at pos: compared character by character
RECURSIVE StartsWith(_, _, _)
StartsWith(text, pos, lit) ==
    IF lit = "" THEN TRUE
    ELSE /\ pos <= Len(text)
         /\ lower_char(CharAt(text, pos)) = lower_char(CharAt(lit, 1))
         /\ StartsWith(text, pos + 1, Rest(lit, 2))

RECURSIVE MatchFrom(_, _, _, _)
RECURSIVE TryLen(_, _, _, _, _)
RECURSIVE TryAlt(_, _, _, _, _)

MatchFrom(re, k, text, pos) ==
    IF k > Len(re) THEN Some(<<>>)
    ELSE IF re[k].kind = "lit"
         THEN IF StartsWith(text, pos, re[k].text)
              THEN MatchFrom(re, k + 1, text, pos + Len(re[k].text))
              ELSE None
    ELSE IF re[k].kind = "alt" THEN TryAlt(re, k, text, pos, 1)
    ELSE TryLen(re, k, text, pos, Run(text, pos, re[k].kind))

\* lazy quantifier: the shortest run first, then longer ones up to n
RECURSIVE TryLen_Lazy(_, _, _, _, _)
TryLen_Lazy(re, k, text, pos, n) ==
    IF n < 1 THEN None
    ELSE LET shorter == TryLen_Lazy(re, k, text, pos, n - 1)
             r == MatchFrom(re, k + 1, text, pos + n)
         IN IF shorter # None THEN shorter
            ELSE IF r # None THEN Some(<<SubSeq(text, pos, pos + n - 1)>> \o Val(r))
            ELSE None

\* greedy quantifier: the longest run first, then shorter ones
TryLen(re, k, text, pos, n) ==
    IF n < 1 THEN None
    ELSE LET r == MatchFrom(re, k + 1, text, pos + n)
         IN IF r # None THEN Some(<<SubSeq(text, pos, pos + n - 1)>> \o Val(r))
            ELSE TryLen(re, k, text, pos, n - 1)

\* alternation: the alternatives in their written order
TryAlt(re, k, text, pos, a) ==
    IF a > Len(re[k].alts) THEN None
    ELSE LET alt == re[k].alts[a]
             r == IF StartsWith(text, pos, alt)
                  THEN MatchFrom(re, k + 1, text, pos + Len(alt)) ELSE None
         IN IF r # None THEN Some(<<SubSeq(text, pos, pos + Len(alt) - 1)>> \o Val(r))
            ELSE TryAlt(re, k, text, pos, a + 1)

re_match(re, text) == MatchFrom(re, 1, text, 1)

\* Match.end(): the length of the matched text, from the regex and its groups
RECURSIVE MatchLen(_, _, _, _)
MatchLen(re, k, groups, g) ==
    IF k > Len(re) THEN 0
    ELSE IF re[k].kind = "lit" THEN Len(re[k].text) + MatchLen(re, k + 1, groups, g)
    ELSE Len(groups[g]) + MatchLen(re, k + 1, groups, g + 1)

(***************************************************************************)
(* ParsedCommand and CommandParser.parse                                   *)
(***************************************************************************)
ParsedCommand(action) ==
    [action |-> action, target |-> None, value |-> None,
     line_number |-> None, parameters |-> {}]

\* Fill that stores the two groups of a target_value entry the wrong way round
Fill_Swapped(entry, groups) ==
    LET command == ParsedCommand(entry.action)
        param_type == entry.param_type
    IN IF param_type = Some("target") /\ Len(groups) > 0
       THEN Some([command EXCEPT !.target = Some(groups[1])])
       ELSE IF param_type = Some("value") /\ Len(groups) > 0
       THEN Some([command EXCEPT !.value = Some(groups[1])])
       ELSE IF param_type = Some("line_number") /\ Len(groups) > 0
       THEN IF ValidInt(groups[1])
            THEN Some([command EXCEPT !.line_number = Some(int(groups[1]))])
            ELSE None
       ELSE IF param_type = Some("target_value") /\ Len(groups) >= 2
       THEN Some([command EXCEPT !.target = Some(groups[2]), !.value = Some(groups[1])])
       ELSE Some(command)

\* Fill that leaves the captured digits as text in value
Fill_LineAsValue(entry, groups) ==
    LET command == ParsedCommand(entry.action)
        param_type == entry.param_type
    IN IF param_type = Some("target") /\ Len(groups) > 0
       THEN Some([command EXCEPT !.target = Some(groups[1])])
       ELSE IF (param_type = Some("value") \/ param_type = Some("line_number"))
               /\ Len(groups) > 0
       THEN Some([command EXCEPT !.value = Some(groups[1])])
       ELSE IF param_type = Some("target_value") /\ Len(groups) >= 2
       THEN Some([command EXCEPT !.target = Some(groups[1]), !.value = Some(groups[2])])
       ELSE Some(command)

\* the body of the loop for the first matching entry
Fill(entry, groups) ==
    LET command == ParsedCommand(entry.action)
        param_type == entry.param_type
    IN IF param_type = Some("target") /\ Len(groups) > 0
       THEN Some([command EXCEPT !.target = Some(groups[1])])
       ELSE IF param_type = Some("value") /\ Len(groups) > 0
       THEN Some([command EXCEPT !.value = Some(groups[1])])
       ELSE IF param_type = Some("line_number") /\ Len(groups) > 0
       THEN IF ValidInt(groups[1])
            THEN Some([command EXCEPT !.line_number = Some(int(groups[1]))])
            ELSE None
       ELSE IF param_type = Some("target_value") /\ Len(groups) >= 2
       THEN Some([command EXCEPT !.target = Some(groups[1]), !.value = Some(groups[2])])
       ELSE Some(command)

\* FirstMatch that keeps looking and returns the last matching entry
RECURSIVE FirstMatch_Last(_, _, _)
FirstMatch_Last(patterns, text, i) ==
    IF i > Len(patterns) THEN 0
    ELSE LET later == FirstMatch_Last(patterns, text, i + 1)
         IN IF later # 0 THEN later
            ELSE IF re_match(patterns[i].pattern, text) # None THEN i ELSE 0

\* FirstMatch that accepts a match only when it ends at the end of the text
RECURSIVE FirstMatch_Full(_, _, _)
FirstMatch_Full(patterns, text, i) ==
    IF i > Len(patterns) THEN 0
    ELSE LET m == re_match(patterns[i].pattern, text)
         IN IF m # None /\ MatchLen(patterns[i].pattern, 1, Val(m), 1) = Len(text) THEN i
            ELSE FirstMatch_Full(patterns, text, i + 1)

\* index of the first entry of the list whose regex matches, 0 if none
RECURSIVE FirstMatch(_, _, _)
FirstMatch(patterns, text, i) ==
    IF i > Len(patterns) THEN 0
    ELSE IF re_match(patterns[i].pattern, text) # None THEN i
    ELSE FirstMatch(patterns, text, i + 1)

\* parse_in that trims the text but does not lower-case it
parse_in_NoLower(patterns, text0) ==
    LET text == strip(text0)
        i == FirstMatch(patterns, text, 1)
    IN IF i = 0 THEN None
       ELSE Fill(patterns[i], Val(re_match(patterns[i].pattern, text)))

\* CommandParser.parse over the instance's list of compiled patterns
parse_in(patterns, text0) ==
    LET text == lower(strip(text0))
        i == FirstMatch(patterns, text, 1)
    IN IF i = 0 THEN None
       ELSE Fill(patterns[i], Val(re_match(patterns[i].pattern, text)))

(***************************************************************************)
(* CommandResult and the outcomes of CommandExecutor.execute.  The         *)
(* executor's source is not part of the tree; it is modelled from its      *)
(* contract: it returns a CommandResult (success with an optional data     *)
(* payload, or failure with an optional error text) or raises.             *)
(***************************************************************************)
\* CommandResult that copies the text into action
CommandResult_WithAction(success, command, error) ==
    [success |-> success, command |-> command, action |-> Some(command),
     error |-> error, data |-> None]

CommandResult(success, command, error) ==
    [success |-> success, command |-> command, action |-> None,
     error |-> error, data |-> None]

Payload == {<<"status", "ok">>}
ExecuteError == "Target not found"
ExecuteException == "backend unavailable"
CallbackException == "callback failed"

execute(command, text) ==
    {[success |-> TRUE, command |-> text, action |-> Some(command.action),
      error |-> None, data |-> d] : d \in {None, Some(Payload)}}
    \cup
    {[success |-> FALSE, command |-> text, action |-> Some(command.action),
      error |-> e, data |-> None] : e \in {None, Some(ExecuteError)}}

\* result.data or {}
data_or_empty(data) == IF data = None \/ Val(data) = {} THEN {} ELSE Val(data)

\* result.error or "Unknown error"
error_or_unknown(error) ==
    IF error = None \/ Val(error) = "" THEN "Unknown error" ELSE Val(error)

(***************************************************************************)
(* State.  One CommandProcessor; NumCalls coroutines running               *)
(* process_command, which interleave at the awaits.                        *)
(***************************************************************************)
NumCalls == 2
Calls == 1..NumCalls

\* the texts handed to process_command
Transcriptions ==
    {"", " \n", "Undo", " go to line 42", "go to line abc", " Xyz"}

VARIABLES
    last_command,          \* CommandProcessor.last_command
    on_command_executed,   \* callback slot, None or Some(handler)
    on_command_error,      \* callback slot, None or Some(handler)
    arg,                   \* per call: the transcription argument as passed in
    pc,                    \* per call: "idle", "executing", "notifying", "done"
    transcription,         \* per call: the local variable (normalized once past line 61)
    parsed,                \* per call: the local variable, None or Some(ParsedCommand)
    result,                \* per call: the local variable, None or Some(CommandResult)
    outcome,               \* per call: "pending", "returned" or "raised"
    ret,                   \* per call: the value returned to the caller, None before
    failure,               \* per call: the message of an exception raised inside the call
    parse_calls,           \* per call: number of Parser.parse invocations
    execute_calls,         \* per call: number of Executor.execute invocations
    notifications,         \* per call: the callback invocations, in order
    resumed,               \* calls in the order their await on execute yielded a result
    returned,              \* calls in the order process_command finished
    parse_text,            \* a direct CommandParser.parse call: its argument
    parse_out,             \* a direct CommandParser.parse call: its return value
    parser_pc,             \* "ready" before the direct parse call, "parsed" after
    parser_patterns,       \* CommandParser.compiled_patterns of the processor's parser
    parse_log,             \* the direct parse calls so far, as <<text, return value>>
    heap,                  \* the dict objects in memory, by address; 1 is Config.DEFAULT_CONFIG
    configs,               \* per Config instance, in order of construction: address of _config
    config_op,             \* the last Config operation: <<"new" | "set" | "raised", instance>>
    set_calls,             \* number of Config.set calls so far
    app_mode,              \* Application: headless, server_only and config server.enabled
    app_pc,                \* Application.run: the position of the call
    running,               \* Application.running
    created,               \* Application: the component attributes that are not None
    pending,               \* Application.run: the exception in flight, None if none
    thrown,                \* the exception that left the try block of run, None if none
    cleanup_calls,         \* number of Application.cleanup invocations
    cleaned,               \* the components cleanup has stopped, in order
    exit_code              \* the value of run's return statement, None before it

vars == <<last_command, on_command_executed, on_command_error, arg, pc, transcription,
          parsed, result, outcome, ret, failure, parse_calls, execute_calls,
          notifications, resumed, returned, parse_text, parse_out, parser_pc,
          parser_patterns, parse_log, heap, configs, config_op, set_calls,
          app_mode, app_pc, running, created, pending, thrown, cleanup_calls,
          cleaned, exit_code>>

parser_vars == <<parse_text, parse_out, parser_pc, parser_patterns, parse_log>>

config_vars == <<heap, configs, config_op, set_calls>>

app_vars ==
    <<app_mode, app_pc, running, created, pending, thrown, cleanup_calls, cleaned,
      exit_code>>

\* self.parser.parse(text)
parse(text0) == parse_in(parser_patterns, text0)

processor_vars ==
    <<last_command, on_command_executed, on_command_error, arg, pc, transcription,
      parsed, result, outcome, ret, failure, parse_calls, execute_calls,
      notifications, resumed, returned>>

slots == <<on_command_executed, on_command_error>>

(***************************************************************************)
(* Config.  A dict is a function from its keys to values; a value is a     *)
(* scalar or the address of another dict, so two dicts can hold the same   *)
(* inner dict.                                                             *)
(***************************************************************************)
Scalar(n) == <<"val", n>>
Ref(a) == <<"ref", a>>
IsRef(v) == v[1] = "ref"

\* Config.DEFAULT_CONFIG as it lies in memory, cut down to two sections:
\* object 1 is the outer dict, objects 2 and 3 are the dicts of its sections
DEFAULT_CONFIG ==
    <<[audio |-> Ref(2), server |-> Ref(3)],
      [sample_rate |-> Scalar(16000), channels |-> Scalar(1)],
      [port |-> Scalar(8765)]>>

\* no Config constructed yet
ConfigInit ==
    /\ heap = DEFAULT_CONFIG
    /\ configs = <<>>
    /\ config_op = <<"none", 0>>
    /\ set_calls = 0

\* Application.__init__: no component yet, not running
Constructed ==
    /\ app_pc = "created"
    /\ running = FALSE
    /\ created = {}
    /\ pending = None
    /\ thrown = None
    /\ cleanup_calls = 0
    /\ cleaned = <<>>
    /\ exit_code = None

\* Application(config) with the default flags
AppInit ==
    /\ app_mode = [headless |-> FALSE, server_only |-> FALSE, server_enabled |-> FALSE]
    /\ Constructed

\* CommandProcessor.__init__
ProcessorInit ==
    /\ last_command = None
    /\ on_command_executed = None
    /\ on_command_error = None
    /\ arg = [c \in Calls |-> ""]
    /\ pc = [c \in Calls |-> "idle"]
    /\ transcription = [c \in Calls |-> ""]
    /\ parsed = [c \in Calls |-> None]
    /\ result = [c \in Calls |-> None]
    /\ outcome = [c \in Calls |-> "pending"]
    /\ ret = [c \in Calls |-> None]
    /\ failure = [c \in Calls |-> None]
    /\ parse_calls = [c \in Calls |-> 0]
    /\ execute_calls = [c \in Calls |-> 0]
    /\ notifications = [c \in Calls |-> <<>>]
    /\ resumed = <<>>
    /\ returned = <<>>

Init ==
    /\ ProcessorInit
    /\ ConfigInit
    /\ AppInit
    /\ parse_text = ""
    /\ parse_out = None
    /\ parser_pc = "ready"
    /\ parser_patterns = compiled_patterns
    /\ parse_log = <<>>

\* Application.setup_callbacks, the two assignments to the processor's slots
setup_callbacks ==
    /\ on_command_executed = None
    /\ on_command_error = None
    /\ on_command_executed' = Some("_handle_command_executed")
    /\ on_command_error' = Some("_handle_command_error")
    /\ UNCHANGED <<last_command, arg, pc, transcription, parsed, result, outcome, ret,
                   failure, parse_calls, execute_calls, notifications, resumed,
                   returned>>
    /\ UNCHANGED <<parser_vars, config_vars, app_vars>>

\* `return value` of call c
Return(c, value) ==
    /\ pc' = [pc EXCEPT ![c] = "done"]
    /\ outcome' = [outcome EXCEPT ![c] = "returned"]
    /\ ret' = [ret EXCEPT ![c] = Some(value)]
    /\ returned' = Append(returned, c)

\* Except that lets the exception leave process_command
Except_Propagate(c, text, msg) ==
    /\ failure' = [failure EXCEPT ![c] = Some(msg)]
    /\ pc' = [pc EXCEPT ![c] = "done"]
    /\ outcome' = [outcome EXCEPT ![c] = "raised"]
    /\ returned' = Append(returned, c)
    /\ UNCHANGED ret

\* the `except Exception as e` clause of call c, entered with message msg
Except(c, text, msg) ==
    /\ failure' = [failure EXCEPT ![c] = Some(msg)]
    /\ Return(c, CommandResult(FALSE, text, Some(msg)))

\* Start that parses before it tests for the empty text
Start_ParseFirst(c, t) ==
    LET text == lower(strip(t))
        command == parse(text)
    IN /\ pc[c] = "idle"
       /\ arg' = [arg EXCEPT ![c] = t]
       /\ transcription' = [transcription EXCEPT ![c] = text]
       /\ parse_calls' = [parse_calls EXCEPT ![c] = @ + 1]
       /\ parsed' = [parsed EXCEPT ![c] = command]
       /\ IF text = ""
          THEN /\ Return(c, CommandResult(FALSE, "", Some("Empty transcription")))
               /\ UNCHANGED execute_calls
          ELSE IF command = None
          THEN /\ Return(c, CommandResult(FALSE, text, Some("Command not recognized")))
               /\ UNCHANGED execute_calls
          ELSE /\ pc' = [pc EXCEPT ![c] = "executing"]
               /\ execute_calls' = [execute_calls EXCEPT ![c] = @ + 1]
               /\ UNCHANGED <<outcome, ret, returned>>
       /\ UNCHANGED <<last_command, slots, result, failure, notifications, resumed>>
       /\ UNCHANGED <<parser_vars, config_vars, app_vars>>

\* Start that reports an unrecognized command with the text as passed in
Start_RawCommand(c, t) ==
    LET text == lower(strip(t))
        command == parse(text)
    IN /\ pc[c] = "idle"
       /\ arg' = [arg EXCEPT ![c] = t]
       /\ transcription' = [transcription EXCEPT ![c] = text]
       /\ IF text = ""
          THEN /\ Return(c, CommandResult(FALSE, "", Some("Empty transcription")))
               /\ UNCHANGED <<parsed, parse_calls, execute_calls>>
          ELSE /\ parse_calls' = [parse_calls EXCEPT ![c] = @ + 1]
               /\ parsed' = [parsed EXCEPT ![c] = command]
               /\ IF command = None
                  THEN /\ Return(c, CommandResult(FALSE, t, Some("Command not recognized")))
                       /\ UNCHANGED execute_calls
                  ELSE /\ pc' = [pc EXCEPT ![c] = "executing"]
                       /\ execute_calls' = [execute_calls EXCEPT ![c] = @ + 1]
                       /\ UNCHANGED <<outcome, ret, returned>>
       /\ UNCHANGED <<last_command, slots, result, failure, notifications, resumed>>
       /\ UNCHANGED <<parser_vars, config_vars, app_vars>>

\* Start that records the text in last_command as soon as it is normalized
Start_StoreFirst(c, t) ==
    LET text == lower(strip(t))
        command == parse(text)
    IN /\ pc[c] = "idle"
       /\ arg' = [arg EXCEPT ![c] = t]
       /\ transcription' = [transcription EXCEPT ![c] = text]
       /\ last_command' = Some(text)
       /\ IF text = ""
          THEN /\ Return(c, CommandResult(FALSE, "", Some("Empty transcription")))
               /\ UNCHANGED <<parsed, parse_calls, execute_calls>>
          ELSE /\ parse_calls' = [parse_calls EXCEPT ![c] = @ + 1]
               /\ parsed' = [parsed EXCEPT ![c] = command]
               /\ IF command = None
                  THEN /\ Return(c, CommandResult(FALSE, text, Some("Command not recognized")))
                       /\ UNCHANGED execute_calls
                  ELSE /\ pc' = [pc EXCEPT ![c] = "executing"]
                       /\ execute_calls' = [execute_calls EXCEPT ![c] = @ + 1]
                       /\ UNCHANGED <<outcome, ret, returned>>
       /\ UNCHANGED <<slots, result, failure, notifications, resumed>>
       /\ UNCHANGED <<parser_vars, config_vars, app_vars>>

\* process_command from its entry to the first await or return
Start(c, t) ==
    LET text == lower(strip(t))
        command == parse(text)
    IN /\ pc[c] = "idle"
       /\ arg' = [arg EXCEPT ![c] = t]
       /\ transcription' = [transcription EXCEPT ![c] = text]
       /\ IF text = ""
          THEN /\ Return(c, CommandResult(FALSE, "", Some("Empty transcription")))
               /\ UNCHANGED <<parsed, parse_calls, execute_calls>>
          ELSE /\ parse_calls' = [parse_calls EXCEPT ![c] = @ + 1]
               /\ parsed' = [parsed EXCEPT ![c] = command]
               /\ IF command = None
                  THEN /\ Return(c, CommandResult(FALSE, text, Some("Command not recognized")))
                       /\ UNCHANGED execute_calls
                  ELSE /\ pc' = [pc EXCEPT ![c] = "executing"]
                       /\ execute_calls' = [execute_calls EXCEPT ![c] = @ + 1]
                       /\ UNCHANGED <<outcome, ret, returned>>
       /\ UNCHANGED <<last_command, slots, result, failure, notifications, resumed>>
       /\ UNCHANGED <<parser_vars, config_vars, app_vars>>

\* Fire that schedules the callback without awaiting it
Fire_NoAwait(c, callback, payload) ==
    /\ notifications' = [notifications EXCEPT ![c] =
           Append(@, [callback |-> callback,
                      args |-> <<transcription[c], payload>>,
                      last_command |-> last_command',
                      state |-> "running"])]
    /\ Return(c, Val(result'[c]))

\* invocation of a callback slot by call c
Fire(c, callback, payload) ==
    /\ notifications' = [notifications EXCEPT ![c] =
           Append(@, [callback |-> callback,
                      args |-> <<transcription[c], payload>>,
                      last_command |-> last_command',
                      state |-> "running"])]
    /\ pc' = [pc EXCEPT ![c] = "notifying"]
    /\ UNCHANGED <<outcome, ret, returned>>

\* Resume with the store of last_command deferred until after the callback
Resume_FireBeforeStore(c, r) ==
    /\ result' = [result EXCEPT ![c] = Some(r)]
    /\ resumed' = Append(resumed, c)
    /\ IF r.success /\ on_command_executed # None
       THEN /\ last_command' = last_command
            /\ Fire(c, "on_command_executed", data_or_empty(r.data))
       ELSE IF ~r.success /\ on_command_error # None
       THEN /\ last_command' = last_command
            /\ Fire(c, "on_command_error", error_or_unknown(r.error))
       ELSE /\ last_command' = Some(transcription[c])
            /\ Return(c, r)
            /\ UNCHANGED notifications
    /\ UNCHANGED <<slots, arg, transcription, parsed, failure, parse_calls, execute_calls>>
    /\ UNCHANGED <<parser_vars, config_vars, app_vars>>

\* Resume that stores last_command for successful results only
Resume_StoreOnSuccess(c, r) ==
    /\ result' = [result EXCEPT ![c] = Some(r)]
    /\ resumed' = Append(resumed, c)
    /\ last_command' = IF r.success THEN Some(transcription[c]) ELSE last_command
    /\ IF r.success /\ on_command_executed # None
       THEN Fire(c, "on_command_executed", data_or_empty(r.data))
       ELSE IF ~r.success /\ on_command_error # None
       THEN Fire(c, "on_command_error", error_or_unknown(r.error))
       ELSE /\ Return(c, r)
            /\ UNCHANGED notifications
    /\ UNCHANGED <<slots, arg, transcription, parsed, failure, parse_calls, execute_calls>>
    /\ UNCHANGED <<parser_vars, config_vars, app_vars>>

\* the await on execute yields r: store last_command, trigger the callbacks
Resume(c, r) ==
    /\ result' = [result EXCEPT ![c] = Some(r)]
    /\ resumed' = Append(resumed, c)
    /\ last_command' = Some(transcription[c])
    /\ IF r.success /\ on_command_executed # None
       THEN Fire(c, "on_command_executed", data_or_empty(r.data))
       ELSE IF ~r.success /\ on_command_error # None
       THEN Fire(c, "on_command_error", error_or_unknown(r.error))
       ELSE /\ Return(c, r)
            /\ UNCHANGED notifications
    /\ UNCHANGED <<slots, arg, transcription, parsed, failure, parse_calls, execute_calls>>
    /\ UNCHANGED <<parser_vars, config_vars, app_vars>>

ExecuteReturn(c) ==
    /\ pc[c] = "executing"
    /\ \E r \in execute(Val(parsed[c]), transcription[c]) : Resume(c, r)

\* ExecuteRaise that calls execute a second time before giving up
ExecuteRaise_Retry(c) ==
    /\ pc[c] = "executing"
    /\ IF execute_calls[c] < 2
       THEN /\ execute_calls' = [execute_calls EXCEPT ![c] = @ + 1]
            /\ UNCHANGED <<pc, outcome, ret, returned, failure>>
       ELSE /\ Except(c, transcription[c], ExecuteException)
            /\ UNCHANGED execute_calls
    /\ UNCHANGED <<last_command, slots, arg, transcription, parsed, result, parse_calls,
                   notifications, resumed>>
    /\ UNCHANGED <<parser_vars, config_vars, app_vars>>

\* the await on execute raises
ExecuteRaise(c) ==
    /\ pc[c] = "executing"
    /\ Except(c, transcription[c], ExecuteException)
    /\ UNCHANGED <<last_command, slots, arg, transcription, parsed, result, parse_calls,
                   execute_calls, notifications, resumed>>
    /\ UNCHANGED <<parser_vars, config_vars, app_vars>>

Finish(c, state) ==
    notifications' = [notifications EXCEPT ![c][Len(notifications[c])].state = state]

\* the awaited callback completes: `return result`
CallbackReturn(c) ==
    /\ pc[c] = "notifying"
    /\ Finish(c, "returned")
    /\ Return(c, Val(result[c]))
    /\ UNCHANGED <<last_command, slots, arg, transcription, parsed, result, failure,
                   parse_calls, execute_calls, resumed>>
    /\ UNCHANGED <<parser_vars, config_vars, app_vars>>

\* CallbackRaise that ignores the exception and returns the Executor's result
CallbackRaise_Swallow(c) ==
    /\ pc[c] = "notifying"
    /\ Finish(c, "raised")
    /\ Return(c, Val(result[c]))
    /\ UNCHANGED <<last_command, slots, arg, transcription, parsed, result, failure,
                   parse_calls, execute_calls, resumed>>
    /\ UNCHANGED <<parser_vars, config_vars, app_vars>>

\* the awaited callback raises
CallbackRaise(c) ==
    /\ pc[c] = "notifying"
    /\ Finish(c, "raised")
    /\ Except(c, transcription[c], CallbackException)
    /\ UNCHANGED <<last_command, slots, arg, transcription, parsed, result, parse_calls,
                   execute_calls, resumed>>
    /\ UNCHANGED <<parser_vars, config_vars, app_vars>>

Next ==
    \/ setup_callbacks
    \/ \E c \in Calls, t \in Transcriptions : Start(c, t)
    \/ \E c \in Calls : ExecuteReturn(c)
    \/ \E c \in Calls : ExecuteRaise(c)
    \/ \E c \in Calls : CallbackReturn(c)
    \/ \E c \in Calls : CallbackRaise(c)

Spec == Init /\ [][Next]_vars

(***************************************************************************)
(* Properties of CommandProcessor.process_command                          *)
(***************************************************************************)
Last(seq) == seq[Len(seq)]

\* the notification the claims expect for result r of call c
Expected(c, r) ==
    IF r.success
    THEN [callback |-> "on_command_executed",
          args |-> <<transcription[c],
                     IF r.data = None \/ Val(r.data) = {} THEN {} ELSE Val(r.data)>>]
    ELSE [callback |-> "on_command_error",
          args |-> <<transcription[c],
                     IF r.error = None \/ Val(r.error) = "" THEN "Unknown error"
                     ELSE Val(r.error)>>]

Matches(n, e) == n.callback = e.callback /\ n.args = e.args

\* C1 as stated: whenever the Executor returned a result to a call, exactly
\* one notification callback has fired for it, the success callback with
\* (transcript, data or empty) or the error callback with (transcript, error
\* or "Unknown error"), and last_command was that transcript when it fired.
C1_Original ==
    \A c \in Calls :
        result[c] # None =>
            /\ Len(notifications[c]) = 1
            /\ Matches(notifications[c][1], Expected(c, Val(result[c])))
            /\ notifications[c][1].last_command = Some(transcription[c])

\* C1 amended: in the step in which the await on the Executor yields a
\* result, last_command becomes the call's transcript and, if the slot for
\* that outcome is registered, exactly that callback is fired, once, with the
\* expected arguments and with last_command already set; if the slot is
\* empty no callback is fired.  No other step fires a callback.
C1_Step ==
    \A c \in Calls :
        IF pc[c] = "executing" /\ result'[c] # None
        THEN LET r == Val(result'[c])
                 slot == IF r.success THEN on_command_executed ELSE on_command_error
             IN /\ last_command' = Some(transcription[c])
                /\ IF slot = None THEN notifications'[c] = <<>>
                   ELSE /\ Len(notifications'[c]) = 1
                        /\ Matches(notifications'[c][1], Expected(c, r))
                        /\ notifications'[c][1].last_command = Some(transcription[c])
        ELSE Len(notifications'[c]) = Len(notifications[c])

C1_Amended == [][C1_Step]_vars

\* both kinds of notification have fired, one for a result without data and
\* one for a failure without error text
C1_Witness ==
    \E c, d \in Calls :
        /\ result[c] # None /\ Val(result[c]).success /\ Val(result[c]).data = None
        /\ Len(notifications[c]) = 1 /\ notifications[c][1].args[2] = {}
        /\ result[d] # None /\ ~Val(result[d]).success /\ Val(result[d]).error = None
        /\ Len(notifications[d]) = 1 /\ notifications[d][1].args[2] = "Unknown error"

IsBlank(s) == \A i \in 1..Len(s) : CharAt(s, i) \in Whitespace

\* C2: no exception leaves process_command; a call in which the Executor or
\* a callback raised returns a CommandResult with success = FALSE whose
\* error is the message of that exception.
C2_NothingThrows ==
    \A c \in Calls :
        /\ outcome[c] # "raised"
        /\ pc[c] = "done" => outcome[c] = "returned" /\ ret[c] # None
        /\ failure[c] # None =>
              /\ pc[c] = "done"
              /\ ret[c] # None
              /\ ~Val(ret[c]).success
              /\ Val(ret[c]).error = failure[c]

\* an exception of the Executor and one of a callback were both turned into results
C2_Witness ==
    \E c, d \in Calls :
        /\ failure[c] = Some(ExecuteException) /\ outcome[c] = "returned"
        /\ failure[d] = Some(CallbackException) /\ outcome[d] = "returned"

\* C3: a call whose argument is empty or consists of whitespace only returns
\* {success: false, command: "", error: "empty transcription"} (the message
\* compared without regard to letter case) and invokes neither Parser.parse
\* nor Executor.execute.
C3_EmptyInput ==
    \A c \in Calls :
        pc[c] # "idle" /\ IsBlank(arg[c]) =>
            /\ pc[c] = "done"
            /\ outcome[c] = "returned"
            /\ ~Val(ret[c]).success
            /\ Val(ret[c]).command = ""
            /\ Val(ret[c]).error # None
            /\ lower(Val(Val(ret[c]).error)) = "empty transcription"
            /\ parse_calls[c] = 0
            /\ execute_calls[c] = 0

\* an empty and a whitespace-only argument have both been processed
C3_Witness ==
    \E c, d \in Calls :
        /\ pc[c] = "done" /\ arg[c] = ""
        /\ pc[d] = "done" /\ arg[d] # "" /\ IsBlank(arg[d])

NoPatternMatches(u) ==
    \A i \in 1..Len(compiled_patterns) : re_match(compiled_patterns[i].pattern, u) = None

\* C4: a call whose normalized utterance u is non-empty and matches no
\* pattern returns success = FALSE with command = u and error "command not
\* recognized" (compared without regard to letter case), and
\* Executor.execute is not invoked.
Unmatched == {t \in Transcriptions : NoPatternMatches(lower(strip(t)))}

C4_Unrecognized ==
    \A c \in Calls :
        LET u == lower(strip(arg[c]))
        IN pc[c] # "idle" /\ u # "" /\ arg[c] \in Unmatched =>
               /\ pc[c] = "done"
               /\ outcome[c] = "returned"
               /\ ~Val(ret[c]).success
               /\ Val(ret[c]).command = u
               /\ Val(ret[c]).error # None
               /\ lower(Val(Val(ret[c]).error)) = "command not recognized"
               /\ execute_calls[c] = 0

\* an utterance that needed normalizing and one with a non-numeric line
\* number were both rejected
C4_Witness ==
    \E c, d \in Calls :
        /\ pc[c] = "done" /\ arg[c] = " Xyz" /\ Val(ret[c]).command = "xyz"
        /\ pc[d] = "done" /\ arg[d] = "go to line abc" /\ parse_calls[d] = 1

\* C6 as stated: every call that ended in failure has been reported through
\* the error callback with a non-empty reason.
C6_FailuresReported ==
    \A c \in Calls :
        (pc[c] = "done" /\ on_command_error # None
            /\ (outcome[c] = "raised" \/ ~Val(ret[c]).success)) =>
            \E i \in 1..Len(notifications[c]) :
                /\ notifications[c][i].callback = "on_command_error"
                /\ notifications[c][i].args[2] # ""

\* C7 as stated, for a call that ran alone: once a call in which the Parser
\* produced a command has finished, last_command is its normalized transcript.
C7_LastCommandRecorded ==
    \A c \in Calls :
        (pc[c] = "done" /\ parsed[c] # None /\ \A d \in Calls \ {c} : pc[d] = "idle") =>
            last_command = Some(transcription[c])

Count(c, callback) ==
    Cardinality({i \in 1..Len(notifications[c]) : notifications[c][i].callback = callback})

\* C8: within one call each notification callback is invoked at most once,
\* and when the call has returned every callback it invoked has finished.
C8_CallbacksAwaited ==
    \A c \in Calls :
        /\ Count(c, "on_command_executed") <= 1
        /\ Count(c, "on_command_error") <= 1
        /\ pc[c] = "done" =>
              \A i \in 1..Len(notifications[c]) : notifications[c][i].state # "running"

\* a call returned the Executor's result after its callback had completed
C8_Witness ==
    \E c \in Calls :
        /\ pc[c] = "done" /\ ret[c] = result[c] /\ ret[c] # None
        /\ Len(notifications[c]) = 1 /\ notifications[c][1].state = "returned"

AllReturned == \A c \in Calls : pc[c] = "done"

\* the calls whose parse succeeded, in the order they returned
ReturnedParsed == SelectSeq(returned, LAMBDA c : parsed[c] # None)

\* C9 as stated, for runs in which no Executor call raised: once all
\* calls have returned, last_command is the transcript of the call that
\* returned last among those whose parse succeeded.
C9_Original ==
    (AllReturned /\ ReturnedParsed # <<>>
        /\ \A c \in Calls : parsed[c] # None => result[c] # None) =>
        last_command = Some(transcription[Last(ReturnedParsed)])

\* C9 amended: last_command is last-write-wins in the order in which the
\* awaits on the Executor yield a result: once all calls have returned it is
\* the transcript of the call whose await on Executor.execute yielded a
\* result last, and still unset if no such await yielded a result.
C9_Amended ==
    AllReturned =>
        last_command = IF resumed = <<>> THEN None
                       ELSE Some(transcription[Last(resumed)])

\* two calls with different transcripts overlapped and the one that wrote
\* last_command last was not the one that returned last
C9_Witness ==
    /\ AllReturned
    /\ Len(resumed) >= 2
    /\ Last(resumed) # Last(returned)
    /\ transcription[Last(resumed)] # transcription[Last(returned)]
    /\ parsed[Last(returned)] # None /\ result[Last(returned)] # None

(***************************************************************************)
(* Direct calls of CommandParser.parse.  The utterances are built from the *)
(* table itself: every pattern with its groups filled in, in both letter   *)
(* cases, with leading and trailing padding or extra words, plus some      *)
(* texts outside the vocabulary.                                           *)
(***************************************************************************)
MaxPad == 1

ToUpper ==
    [ch \in {CharAt(LowerChars, i) : i \in 1..Len(LowerChars)} |->
        CharAt(UpperChars, IndexIn(ch, LowerChars))]

RECURSIVE upper(_)
upper(s) ==
    IF s = "" THEN ""
    ELSE (IF CharAt(s, 1) \in DOMAIN ToUpper THEN ToUpper[CharAt(s, 1)] ELSE CharAt(s, 1))
         \o upper(Rest(s, 2))

RECURSIVE Spaces(_)
Spaces(n) == IF n = 0 THEN "" ELSE " " \o Spaces(n - 1)

Fillers == {"", "42", "abc", "42abc", "down", "notes.txt", "a to b", "x\ny"}
PairFillers == {"", "foo", "bar", "a to b", "a with b", "x\ny"}
Outside == {"", "xyz", "go to line", "sav", "hello world", "Undo", "Rename Foo To Bar",
            "rename a to b to c"}
Leads == {Spaces(n) : n \in 0..MaxPad} \cup {"x", "\t"}
Trails == {Spaces(n) : n \in 0..MaxPad} \cup {" xyz", "\n"}

NumGroups(re) == Cardinality({k \in 1..Len(re) : re[k].kind # "lit"})

\* the text of a compiled regex with f1 and f2 in place of its groups
RECURSIVE Instance(_, _, _, _)
Instance(re, k, f1, f2) ==
    IF k > Len(re) THEN ""
    ELSE IF re[k].kind = "lit" THEN re[k].text \o Instance(re, k + 1, f1, f2)
    ELSE f1 \o Instance(re, k + 1, f2, f2)

Skeletons ==
    Outside \cup
    UNION {LET re == compiled_patterns[i].pattern
           IN IF NumGroups(re) = 0 THEN {Instance(re, 1, "", "")}
              ELSE IF NumGroups(re) = 1 THEN {Instance(re, 1, f, "") : f \in Fillers}
              ELSE {Instance(re, 1, f[1], f[2]) : f \in PairFillers \X PairFillers}
           : i \in 1..Len(compiled_patterns)}

Utterances ==
    UNION {{lead \o k \o trail, lead \o upper(k) \o trail} :
           lead \in Leads, k \in Skeletons, trail \in Trails}

InitParse ==
    /\ ProcessorInit
    /\ ConfigInit
    /\ AppInit
    /\ parse_text \in Utterances
    /\ parse_out = None
    /\ parser_pc = "ready"
    /\ parser_patterns = compiled_patterns
    /\ parse_log = <<>>

\* parser.parse(parse_text)
Parse ==
    /\ parser_pc = "ready"
    /\ parse_out' = parse(parse_text)
    /\ parser_pc' = "parsed"
    /\ parse_log' = Append(parse_log, <<parse_text, parse_out'>>)
    /\ UNCHANGED <<parse_text, parser_patterns>>
    /\ UNCHANGED <<processor_vars, config_vars, app_vars>>

NextParse == Parse

SpecParse == InitParse /\ [][NextParse]_vars

(***************************************************************************)
(* Properties of CommandParser.parse                                       *)
(***************************************************************************)
Normalized(t) == lower(strip(t))

\* the entries whose regex matches u at its first character
MatchingEntries(u) ==
    {i \in 1..Len(compiled_patterns) : re_match(compiled_patterns[i].pattern, u) # None}

Min(S) == CHOOSE i \in S : \A j \in S : i <= j

\* C5: parse answers with the first entry, in table order, whose pattern
\* matches the normalized text at its first character, also when a later
\* entry matches more of the text: "save as notes.txt" parses to action
\* save with no value; when no entry matches the answer is none.
C5_FirstMatch ==
    parser_pc = "parsed" =>
        LET M == MatchingEntries(Normalized(parse_text))
        IN /\ M = {} => parse_out = None
           /\ parse_out # None =>
                 /\ M # {}
                 /\ Val(parse_out).action = compiled_patterns[Min(M)].action
           /\ parse_text = "save as notes.txt" => parse_out = Some(ParsedCommand("save"))

\* "save as notes.txt" was parsed and both "save" and "save as (.+)" match it
C5_Witness ==
    /\ parser_pc = "parsed"
    /\ parse_text = "save as notes.txt"
    /\ Cardinality(MatchingEntries(parse_text)) >= 2
    /\ Val(parse_out).action = "save"

LineEntries ==
    {i \in 1..Len(compiled_patterns) : compiled_patterns[i].param_type = Some("line_number")}

\* the command words of a line-number entry
Words(i) == compiled_patterns[i].pattern[1].text

HasPrefix(u, w) == Len(u) >= Len(w) /\ SubSeq(u, 1, Len(w)) = w

\* number of leading decimal digits of s
RECURSIVE LeadingDigits(_)
LeadingDigits(s) ==
    IF s # "" /\ CharAt(s, 1) \in DigitChars THEN 1 + LeadingDigits(Rest(s, 2)) ELSE 0

\* base-10 value of a digit string, most significant digit first
RECURSIVE Decimal(_, _)
Decimal(s, acc) ==
    IF s = "" THEN acc
    ELSE Decimal(Rest(s, 2), 10 * acc + (CHOOSE d \in 0..9 : CharAt(Digits, d + 1) = CharAt(s, 1)))

\* C10 as stated: after the command words of a line-number pattern, digits
\* give that action with their base-10 value as line_number, and a text
\* that does not start with a digit gives none.
C10_Original ==
    parser_pc = "parsed" =>
        \A i \in LineEntries :
            LET u == Normalized(parse_text)
                after == Rest(u, Len(Words(i)) + 1)
                n == LeadingDigits(after)
            IN HasPrefix(u, Words(i)) /\ after # "" =>
                   IF n > 0
                   THEN parse_out = Some([ParsedCommand(compiled_patterns[i].action)
                              EXCEPT !.line_number = Some(Decimal(SubSeq(after, 1, n), 0))])
                   ELSE parse_out = None

\* C10 amended: after the command words of a line-number pattern, the
\* leading digits give that action with their base-10 value, a non-negative
\* integer, as line_number ("go to line 42" yields goto_line, 42); a text
\* that does not start with a digit never gives that action nor any
\* line_number: "go to line abc" yields none, while after "select line" the
\* later entry "select line" answers with select_current_line.
C10_Amended ==
    parser_pc = "parsed" =>
        /\ \A i \in LineEntries :
              LET u == Normalized(parse_text)
                  after == Rest(u, Len(Words(i)) + 1)
                  n == LeadingDigits(after)
              IN HasPrefix(u, Words(i)) /\ after # "" =>
                     IF n > 0
                     THEN /\ parse_out = Some([ParsedCommand(compiled_patterns[i].action)
                                 EXCEPT !.line_number = Some(Decimal(SubSeq(after, 1, n), 0))])
                          /\ Val(Val(parse_out).line_number) >= 0
                     ELSE IF compiled_patterns[i].action = "goto_line"
                     THEN parse_out = None
                     ELSE parse_out = Some(ParsedCommand("select_current_line"))
        /\ parse_text = "go to line 42" =>
              parse_out = Some([ParsedCommand("goto_line") EXCEPT !.line_number = Some(42)])
        /\ parse_text = "go to line abc" => parse_out = None

\* "go to line 42" was parsed to line 42
C10_Witness ==
    /\ parser_pc = "parsed"
    /\ parse_text = "go to line 42"
    /\ parse_out # None
    /\ Val(parse_out).line_number = Some(42)

\* C11: a ParsedCommand returned by parse carries the action of the first
\* matching entry and exactly the fields of that entry's parameter shape,
\* taken from the capture groups: no field for none, target = group 1,
\* value = group 1, line_number only, or target = group 1 and value =
\* group 2; every other field is unset and parameters is empty.  "rename
\* foo to bar" yields rename with target "foo" and value "bar".
C11_Shape ==
    (parser_pc = "parsed" /\ parse_out # None) =>
        LET u == Normalized(parse_text)
            e == compiled_patterns[Min(MatchingEntries(u))]
            g == Val(re_match(e.pattern, u))
            c == Val(parse_out)
        IN /\ c.action = e.action
           /\ c.parameters = {}
           /\ e.param_type = None =>
                 c.target = None /\ c.value = None /\ c.line_number = None
           /\ e.param_type = Some("target") =>
                 c.target = Some(g[1]) /\ c.value = None /\ c.line_number = None
           /\ e.param_type = Some("value") =>
                 c.target = None /\ c.value = Some(g[1]) /\ c.line_number = None
           /\ e.param_type = Some("line_number") =>
                 c.target = None /\ c.value = None /\ c.line_number # None
           /\ e.param_type = Some("target_value") =>
                 c.target = Some(g[1]) /\ c.value = Some(g[2]) /\ c.line_number = None
           /\ parse_text = "rename foo to bar" =>
                 c = [ParsedCommand("rename") EXCEPT !.target = Some("foo"),
                                                     !.value = Some("bar")]

\* "rename foo to bar" was parsed into its two fields
C11_Witness ==
    /\ parser_pc = "parsed"
    /\ parse_text = "rename foo to bar"
    /\ parse_out # None
    /\ Val(parse_out).target = Some("foo")
    /\ Val(parse_out).value = Some("bar")

\* C12: parse gives the same answer for a text and for its trimmed,
\* lower-cased form, so normalizing in the Processor and again in the Parser
\* equals normalizing once; "UNDO", "Undo" and " undo " parse to undo.
C12_CaseAndSpace ==
    parser_pc = "parsed" =>
        /\ parse_out = parse_in(compiled_patterns, Normalized(parse_text))
        /\ parse_out = parse_in(compiled_patterns, Normalized(Normalized(parse_text)))
        /\ parse_text \in {"UNDO", "Undo", " undo ", "undo"} =>
              parse_out = Some(ParsedCommand("undo"))
        /\ parse_text = "Rename Foo To Bar" =>
              parse_out = Some([ParsedCommand("rename") EXCEPT !.target = Some("foo"),
                                                               !.value = Some("bar")])

\* an upper-case utterance with surrounding blanks was recognized
C12_Witness ==
    /\ parser_pc = "parsed"
    /\ parse_text = " UNDO "
    /\ parse_out = Some(ParsedCommand("undo"))

(***************************************************************************)
(* Repeated direct calls of parse on one CommandParser                     *)
(***************************************************************************)
MaxParses == 3

ReparseTexts ==
    {"select line 42", "select line", "Save As notes.txt", "undo", "xyz", "find next"}

\* parse that moves the entry it matched to the front of the list
ParseAgain_MoveToFront(t) ==
    LET i == FirstMatch(parser_patterns, lower(strip(t)), 1)
    IN /\ Len(parse_log) < MaxParses
       /\ parse_text' = t
       /\ parse_out' = parse(t)
       /\ parser_pc' = "parsed"
       /\ parse_log' = Append(parse_log, <<t, parse_out'>>)
       /\ parser_patterns' =
             IF i = 0 THEN parser_patterns
             ELSE <<parser_patterns[i]>> \o SubSeq(parser_patterns, 1, i - 1)
                  \o SubSeq(parser_patterns, i + 1, Len(parser_patterns))
       /\ UNCHANGED <<processor_vars, config_vars, app_vars>>

\* one more parser.parse(t) on the same CommandParser
ParseAgain(t) ==
    /\ Len(parse_log) < MaxParses
    /\ parse_text' = t
    /\ parse_out' = parse(t)
    /\ parser_pc' = "parsed"
    /\ parse_log' = Append(parse_log, <<t, parse_out'>>)
    /\ UNCHANGED parser_patterns
    /\ UNCHANGED <<processor_vars, config_vars, app_vars>>

NextReparse == \E t \in ReparseTexts : ParseAgain(t)

SpecReparse == Init /\ [][NextReparse]_vars

\* C13: two parse calls on the same text return equal answers (both none or
\* structurally equal commands) whatever was parsed in between, and the
\* parser's list of compiled patterns stays the list built at construction,
\* in the same order.
C13_Deterministic ==
    /\ \A i, j \in 1..Len(parse_log) :
          parse_log[i][1] = parse_log[j][1] => parse_log[i][2] = parse_log[j][2]
    /\ parser_patterns = compiled_patterns

\* "select line 42" was parsed, then "select line", then "select line 42" again
C13_Witness ==
    /\ Len(parse_log) = 3
    /\ parse_log[1][1] = "select line 42"
    /\ parse_log[2][1] = "select line"
    /\ parse_log[3][1] = "select line 42"
    /\ parse_log[3][2] # None
    /\ Val(parse_log[3][2]).line_number = Some(42)

(***************************************************************************)
(* Further properties of CommandProcessor.process_command                  *)
(***************************************************************************)
\* C14: within one call Parser.parse and Executor.execute are each invoked
\* at most once, also when execution returns a failure result or raises.
C14_NoRetries ==
    \A c \in Calls : parse_calls[c] <= 1 /\ execute_calls[c] <= 1

\* one call ended with a raised execution and one with a failure result,
\* each after a single execute
C14_Witness ==
    \E c, d \in Calls :
        /\ pc[c] = "done" /\ failure[c] = Some(ExecuteException) /\ execute_calls[c] = 1
        /\ pc[d] = "done" /\ result[d] # None /\ ~Val(result[d]).success
        /\ execute_calls[d] = 1 /\ parse_calls[d] = 1

\* the calls whose result was built by the Processor itself
BuiltByProcessor(c) == pc[c] = "done" /\ (parsed[c] = None \/ failure[c] # None)

\* C15: a CommandResult built by the Processor itself (empty input,
\* unrecognized command, caught failure) has success = FALSE, an error, no
\* data and no action.
C15_WellFormed ==
    \A c \in Calls :
        BuiltByProcessor(c) =>
            /\ ret[c] # None
            /\ ~Val(ret[c]).success
            /\ Val(ret[c]).error # None
            /\ Val(ret[c]).data = None
            /\ Val(ret[c]).action = None

\* an unrecognized command and a caught failure were both turned into results
C15_Witness ==
    \E c, d \in Calls :
        /\ BuiltByProcessor(c) /\ parsed[c] = None /\ transcription[c] # ""
        /\ BuiltByProcessor(d) /\ parsed[d] # None /\ failure[d] # None

\* C16: the step in which a call ends at the empty-input or the
\* unrecognized-command return leaves last_command as it was and invokes no
\* notification callback.
C16_Step ==
    \A c \in Calls :
        (pc[c] = "idle" /\ pc'[c] = "done") =>
            /\ last_command' = last_command
            /\ notifications' = notifications
            /\ notifications'[c] = <<>>

C16_EarlyReturnFrame == [][C16_Step]_vars

\* with the error callback registered and last_command holding another
\* call's transcript, an unrecognized command returned
C16_Witness ==
    \E c, d \in Calls :
        /\ c # d
        /\ on_command_error # None
        /\ returned = <<d, c>>
        /\ parsed[c] = None /\ transcription[c] # ""
        /\ last_command = Some(transcription[d])
        /\ notifications[c] = <<>>

CallbackRaised(c) == notifications[c] # <<>> /\ notifications[c][1].state = "raised"

\* C17: when a notification callback raises, the call returns a failure
\* CommandResult whose error is the callback's message instead of the
\* Executor's result, also when the execution succeeded; no second callback
\* is fired and the step leaves last_command as written (the call's own
\* transcript when no other call ran).
C17_Step ==
    \A c \in Calls :
        (pc[c] = "notifying" /\ notifications'[c][1].state = "raised") =>
            /\ pc'[c] = "done"
            /\ outcome'[c] = "returned"
            /\ ret'[c] # result[c]
            /\ ~Val(ret'[c]).success
            /\ Val(ret'[c]).error = Some(CallbackException)
            /\ Len(notifications'[c]) = 1
            /\ notifications'[c][1].state = "raised"
            /\ last_command' = last_command
            /\ (\A d \in Calls \ {c} : pc[d] = "idle") =>
                  last_command' = Some(transcription[c])

C17_CallbackRaises == [][C17_Step]_vars

\* the success callback raised after a successful execution
C17_Witness ==
    \E c \in Calls :
        /\ pc[c] = "done"
        /\ CallbackRaised(c)
        /\ notifications[c][1].callback = "on_command_executed"
        /\ Val(result[c]).success
        /\ ~Val(ret[c]).success


(***************************************************************************)
(* Entries of the table that an earlier entry shadows                      *)
(***************************************************************************)
TableActions == {compiled_patterns[i].action : i \in 1..Len(compiled_patterns)}

Shadowed == {"save_as", "copy_line", "find_next", "find_previous"}

\* the actions that parse answers with over the table's own utterances
ReachableActions ==
    {Val(parse_in(compiled_patterns, k)).action :
        k \in {s \in Skeletons : parse_in(compiled_patterns, s) # None}}

\* C18: with the shipped table parse never answers with save_as, copy_line,
\* find_next or find_previous: whenever the pattern of one of these entries
\* matches the text, an earlier entry ("save", "copy", "find (.+)") matches
\* it too and answers; every other action of the table is the answer to
\* some utterance.
C18_Shadowed ==
    /\ ReachableActions = TableActions \ Shadowed
    /\ parser_pc = "parsed" =>
          LET u == Normalized(parse_text)
              M == MatchingEntries(u)
          IN /\ parse_out # None => Val(parse_out).action \notin Shadowed
             /\ \A i \in M :
                   compiled_patterns[i].action \in Shadowed =>
                       /\ Min(M) < i
                       /\ compiled_patterns[Min(M)].action \in {"save", "copy", "find"}
                       /\ parse_out # None
                       /\ Val(parse_out).action = compiled_patterns[Min(M)].action

\* "find next" was parsed: the find_next entry matches it and find answered
C18_Witness ==
    /\ parser_pc = "parsed"
    /\ parse_text = "find next"
    /\ \E i \in MatchingEntries(parse_text) : compiled_patterns[i].action = "find_next"
    /\ parse_out = Some([ParsedCommand("find") EXCEPT !.value = Some("next")])


(***************************************************************************)
(* Anchoring of the match                                                  *)
(***************************************************************************)
\* the part of u that the first matching entry matched
MatchedPrefix(u) ==
    LET e == compiled_patterns[Min(MatchingEntries(u))]
    IN SubSeq(u, 1, MatchLen(e.pattern, 1, Val(re_match(e.pattern, u)), 1))

\* C19: matching is anchored at the start only.  A text is recognized
\* whenever some pattern matches at its first character, whatever follows
\* the match; the matched prefix alone selects the same entry with the same
\* groups, so the text after it is ignored: "undo xyz" parses to undo and
\* "go to line 42abc" to goto_line with line_number 42.  A pattern that
\* occurs later in the text does not count: "xundo" parses to none.
C19_PrefixMatch ==
    parser_pc = "parsed" =>
        LET u == Normalized(parse_text)
            M == MatchingEntries(u)
        IN /\ M # {} => parse_out # None
           /\ parse_out # None =>
                 LET e == compiled_patterns[Min(M)]
                     prefix == MatchedPrefix(u)
                 IN /\ HasPrefix(u, prefix)
                    /\ FirstMatch(compiled_patterns, prefix, 1) = Min(M)
                    /\ re_match(e.pattern, prefix) = re_match(e.pattern, u)
                    /\ parse_out = Fill(e, Val(re_match(e.pattern, prefix)))
           /\ parse_text = "undo xyz" => parse_out = Some(ParsedCommand("undo"))
           /\ parse_text = "go to line 42abc" =>
                 parse_out = Some([ParsedCommand("goto_line") EXCEPT !.line_number = Some(42)])
           /\ parse_text = "xundo" => parse_out = None

\* "go to line 42abc" was parsed and the match ended before the text did
C19_Witness ==
    /\ parser_pc = "parsed"
    /\ parse_text = "go to line 42abc"
    /\ MatchedPrefix(parse_text) = "go to line 42"
    /\ parse_out # None
    /\ Val(parse_out).line_number = Some(42)


(***************************************************************************)
(* The two-parameter patterns                                              *)
(***************************************************************************)
PairEntries ==
    {i \in 1..Len(compiled_patterns) : compiled_patterns[i].param_type = Some("target_value")}

\* the literal between the two groups, with its spaces: " to " or " with "
Separator(i) == compiled_patterns[i].pattern[3].text

\* the positions of s at which sep starts
Occurrences(s, sep) ==
    {p \in 1..Len(s) : p + Len(sep) - 1 <= Len(s) /\ SubSeq(s, p, p + Len(sep) - 1) = sep}

Max(S) == CHOOSE i \in S : \A j \in S : i >= j

\* s up to its first line feed
FirstLine(s) ==
    LET nl == Find(s, "\n", 1) IN IF nl = 0 THEN s ELSE SubSeq(s, 1, nl - 1)

Pair(i, target, value) ==
    Some([ParsedCommand(compiled_patterns[i].action)
             EXCEPT !.target = Some(target), !.value = Some(value)])

\* C20 as stated: when the separator occurs more than once after the
\* command word, target is everything before its last occurrence and value
\* everything after it, both non-empty.
C20_Original ==
    parser_pc = "parsed" =>
        \A i \in PairEntries :
            LET u == Normalized(parse_text)
                body == Rest(u, Len(Words(i)) + 1)
                sep == Separator(i)
                O == Occurrences(body, sep)
            IN HasPrefix(u, Words(i)) /\ Cardinality(O) >= 2 =>
                   /\ parse_out = Pair(i, SubSeq(body, 1, Max(O) - 1),
                                          Rest(body, Max(O) + Len(sep)))
                   /\ Max(O) > 1
                   /\ Max(O) + Len(sep) <= Len(body)

\* C20 amended: for a two-parameter pattern the split is at the last
\* occurrence of the separator, on the first line of the text, that has at
\* least one character before it and one after it on that line; target is
\* the text between the command word and that occurrence and value the rest
\* of that line, both non-empty ("rename a to b to c" yields target
\* "a to b", value "c").  What follows a line feed is dropped, and when the
\* first line has no such occurrence the answer is none.
C20_Amended ==
    parser_pc = "parsed" =>
        /\ \A i \in PairEntries :
              LET u == Normalized(parse_text)
                  line == FirstLine(Rest(u, Len(Words(i)) + 1))
                  sep == Separator(i)
                  V == {p \in Occurrences(line, sep) : p > 1 /\ p + Len(sep) <= Len(line)}
              IN HasPrefix(u, Words(i)) =>
                     IF V = {} THEN parse_out = None
                     ELSE /\ parse_out = Pair(i, SubSeq(line, 1, Max(V) - 1),
                                                 Rest(line, Max(V) + Len(sep)))
                          /\ Val(Val(parse_out).target) # ""
                          /\ Val(Val(parse_out).value) # ""
        /\ parse_text = "rename a to b to c" =>
              parse_out = Some([ParsedCommand("rename") EXCEPT !.target = Some("a to b"),
                                                               !.value = Some("c")])

\* "rename a to b to c", with two separators, was split at the second one
C20_Witness ==
    /\ parser_pc = "parsed"
    /\ parse_text = "rename a to b to c"
    /\ Cardinality(Occurrences(parse_text, " to ")) = 2
    /\ parse_out # None
    /\ Val(parse_out).target = Some("a to b")
    /\ Val(parse_out).value = Some("c")

\* a value with a line feed in it was cut at the line feed
C20_LineFeedWitness ==
    /\ parser_pc = "parsed"
    /\ parse_text = "rename a to b to x\ny"
    /\ parse_out # None
    /\ Val(parse_out).target = Some("a to b")
    /\ Val(parse_out).value = Some("x")


(***************************************************************************)
(* Config: construction, the load of a user file, get and set              *)
(***************************************************************************)
NumConfigs == 2
MaxSets == 2

\* key.split('.')
RECURSIVE split(_)
split(key) ==
    LET dot == Find(key, ".", 1)
    IN IF dot = 0 THEN <<key>>
       ELSE <<SubSeq(key, 1, dot - 1)>> \o split(Rest(key, dot + 1))

\* d[k] = v
DictSet(d, k, v) == [x \in DOMAIN d \cup {k} |-> IF x = k THEN v ELSE d[x]]

\* what yaml.safe_load returns: the items of a mapping in file order, each
\* value a scalar or again a mapping
Item(k, v) == <<k, v>>
Mapping(itms) == <<"dict", itms>>

\* the user files: an empty one, one that overrides a default, one with a
\* new section and a new top-level key, one with a mapping where the
\* defaults have a number
UserConfigs ==
    << <<>>,
       <<Item("audio", Mapping(<<Item("sample_rate", Scalar(8000))>>))>>,
       <<Item("extra", Mapping(<<Item("x", Scalar(1))>>)), Item("theme", Scalar(2))>>,
       <<Item("audio", Mapping(<<Item("channels", Mapping(<<Item("x", Scalar(1))>>))>>)),
         Item("server", Mapping(<<Item("port", Scalar(9000))>>))>> >>

\* the dict object of a loaded mapping, written into the fresh object a
RECURSIVE yaml_load(_, _, _)
yaml_load(h, a, itms) ==
    IF itms = <<>> THEN h
    ELSE LET k == itms[1][1]
             v == itms[1][2]
             n == Len(h) + 1
         IN IF v[1] = "val"
            THEN yaml_load([h EXCEPT ![a] = DictSet(h[a], k, v)], a, Tail(itms))
            ELSE yaml_load(yaml_load(Append([h EXCEPT ![a] = DictSet(h[a], k, Ref(n))],
                                            <<>>), n, v[2]),
                           a, Tail(itms))

\* Config._deep_update(base_dict, update_dict) with base_dict the object a;
\* raised when the recursion reaches a base value that is no dict
RECURSIVE deep_update(_, _, _)
deep_update(h, a, itms) ==
    IF itms = <<>> THEN [heap |-> h, raised |-> FALSE]
    ELSE LET k == itms[1][1]
             v == itms[1][2]
             n == Len(h) + 1
         IN IF v[1] = "dict" /\ k \in DOMAIN h[a]
            THEN IF IsRef(h[a][k])
                 THEN LET r == deep_update(h, h[a][k][2], v[2])
                      IN IF r.raised THEN r ELSE deep_update(r.heap, a, Tail(itms))
                 ELSE IF v[2] = <<>> THEN deep_update(h, a, Tail(itms))
                 ELSE [heap |-> h, raised |-> TRUE]
            ELSE IF v[1] = "val"
            THEN deep_update([h EXCEPT ![a] = DictSet(h[a], k, v)], a, Tail(itms))
            ELSE deep_update(yaml_load(Append([h EXCEPT ![a] = DictSet(h[a], k, Ref(n))],
                                              <<>>), n, v[2]),
                             a, Tail(itms))

\* the loop and the final store of Config.set, from the dict object a on
RECURSIVE set_walk(_, _, _, _)
set_walk(h, a, ks, v) ==
    IF Len(ks) = 1
    THEN [heap |-> [h EXCEPT ![a] = DictSet(h[a], ks[1], v)], raised |-> FALSE]
    ELSE IF ks[1] \in DOMAIN h[a]
    THEN IF IsRef(h[a][ks[1]]) THEN set_walk(h, h[a][ks[1]][2], Tail(ks), v)
         ELSE [heap |-> h, raised |-> TRUE]
    ELSE LET n == Len(h) + 1
         IN set_walk(Append([h EXCEPT ![a] = DictSet(h[a], ks[1], Ref(n))], <<>>),
                     n, Tail(ks), v)

\* the loop of Config.get from the value v on; None stands for the default
RECURSIVE get_walk(_, _, _)
get_walk(h, v, ks) ==
    IF ks = <<>> THEN Some(v)
    ELSE IF IsRef(v) /\ ks[1] \in DOMAIN h[v[2]] THEN get_walk(h, h[v[2]][ks[1]], Tail(ks))
    ELSE None

\* config.get(key) of the instance whose _config is the object a
get(h, a, key) == get_walk(h, Ref(a), split(key))

\* Config(config_path): u = 0 is no file, otherwise the file UserConfigs[u]
New(u) ==
    /\ Len(configs) < NumConfigs
    /\ LET a == Len(heap) + 1
           copied == Append(heap, heap[1])
       IN /\ heap' = IF u = 0 \/ UserConfigs[u] = <<>> THEN copied
                     ELSE deep_update(copied, a, UserConfigs[u]).heap
          /\ configs' = Append(configs, a)
    /\ config_op' = <<"new", Len(configs) + 1>>
    /\ UNCHANGED set_calls
    /\ UNCHANGED <<processor_vars, parser_vars, app_vars>>

SetKeys == {"audio.sample_rate", "server.port", "theme", "theme.x", "extra.x"}
SetValues == {8000, 1}

\* config.set(key, value) on instance i
Set(i, key, value) ==
    /\ i \in 1..Len(configs)
    /\ set_calls < MaxSets
    /\ LET r == set_walk(heap, configs[i], split(key), Scalar(value))
       IN /\ heap' = r.heap
          /\ config_op' = <<IF r.raised THEN "raised" ELSE "set", i>>
    /\ set_calls' = set_calls + 1
    /\ UNCHANGED configs
    /\ UNCHANGED <<processor_vars, parser_vars, app_vars>>

NextConfig ==
    \/ \E u \in 0..Len(UserConfigs) : New(u)
    \/ \E i \in 1..NumConfigs, key \in SetKeys, value \in SetValues : Set(i, key, value)

SpecConfig == Init /\ [][NextConfig]_vars


(***************************************************************************)
(* Properties of Config                                                    *)
(***************************************************************************)
ProbeKeys == SetKeys \cup {"audio", "audio.channels", "server", "extra", "missing"}

\* a value as the caller sees it: a dict with the values it holds, in depth
RECURSIVE Deep(_, _)
Deep(h, v) ==
    IF IsRef(v) THEN <<"dict", [k \in DOMAIN h[v[2]] |-> Deep(h, h[v[2]][k])]>> ELSE v

\* what get returns for key, None for the default
Returned(h, a, key) ==
    LET r == get(h, a, key) IN IF r = None THEN None ELSE Some(Deep(h, Val(r)))

\* one Config operation leaves every other instance and DEFAULT_CONFIG as
\* they were
C21_Step ==
    /\ \A j \in 1..Len(configs) :
          j # config_op'[2] =>
              \A key \in ProbeKeys :
                  Returned(heap', configs[j], key) = Returned(heap, configs[j], key)
    /\ Deep(heap', Ref(1)) = Deep(heap, Ref(1))

\* C21: Config instances are independent: a set call or the load of a user
\* file on one instance changes neither what get returns on any other
\* instance nor the class-level DEFAULT_CONFIG.
C21_Independent == [][C21_Step]_vars

\* instance 1 has set audio.sample_rate and instance 2, which was never
\* written to, returns the new value, as does DEFAULT_CONFIG
C21_Leak ==
    /\ Len(configs) = 2
    /\ config_op = <<"set", 1>>
    /\ set_calls = 1
    /\ get(heap, configs[2], "audio.sample_rate") = Some(Scalar(8000))
    /\ heap[heap[1]["audio"][2]]["sample_rate"] = Scalar(8000)


(***************************************************************************)
(* Application.run.  The components, the GUI toolkit and the server are    *)
(* collaborators: a call into one of them returns or raises, and what it   *)
(* raises is a KeyboardInterrupt, an Exception, or a BaseException that is *)
(* neither (SystemExit).                                                   *)
(***************************************************************************)
Raises == {"KeyboardInterrupt", "Exception", "SystemExit"}

\* the values QApplication.exec() hands back
GuiExitCodes == {0, 2}

Modes == [headless : BOOLEAN, server_only : BOOLEAN, server_enabled : BOOLEAN]

\* the attributes initialize_components assigns, in its order, for the mode
Components(m) ==
    <<"whisper_engine", "audio_manager", "automation_manager", "command_processor">>
    \o (IF ~m.headless /\ ~m.server_only THEN <<"gui">> ELSE <<>>)
    \o (IF m.server_only \/ m.server_enabled THEN <<"server">> ELSE <<>>)

IsMissing(c) == c \notin created

\* the components initialize_components has still to create
Remaining == SelectSeq(Components(app_mode), IsMissing)

InitApp ==
    /\ ProcessorInit
    /\ ConfigInit
    /\ parse_text = ""
    /\ parse_out = None
    /\ parser_pc = "ready"
    /\ parser_patterns = compiled_patterns
    /\ parse_log = <<>>
    /\ app_mode \in Modes
    /\ Constructed

app_frame == <<processor_vars, parser_vars, config_vars>>

\* run() is called and enters its try block
RunBegin ==
    /\ app_pc = "created"
    /\ app_pc' = "initializing"
    /\ UNCHANGED <<app_mode, running, created, pending, thrown, cleanup_calls, cleaned,
                   exit_code>>
    /\ UNCHANGED app_frame

\* initialize_components: the next constructor returns
Create ==
    /\ app_pc = "initializing"
    /\ Remaining # <<>>
    /\ created' = created \cup {Head(Remaining)}
    /\ UNCHANGED <<app_mode, app_pc, running, pending, thrown, cleanup_calls, cleaned,
                   exit_code>>
    /\ UNCHANGED app_frame

\* an exception leaves the try block of run
Raise(k) ==
    /\ pending' = Some(k)
    /\ thrown' = Some(k)
    /\ app_pc' = "except"
    /\ UNCHANGED <<app_mode, running, created, cleanup_calls, cleaned, exit_code>>
    /\ UNCHANGED app_frame

\* initialize_components: the next constructor raises; an Exception is
\* logged and raised again
CreateRaise(k) ==
    /\ app_pc = "initializing"
    /\ Remaining # <<>>
    /\ Raise(k)

\* setup_callbacks returns and run sets running
RunSetupCallbacks ==
    /\ app_pc = "initializing"
    /\ Remaining = <<>>
    /\ on_command_executed' = Some("_handle_command_executed")
    /\ on_command_error' = Some("_handle_command_error")
    /\ running' = TRUE
    /\ app_pc' = "mode"
    /\ UNCHANGED <<app_mode, created, pending, thrown, cleanup_calls, cleaned, exit_code>>
    /\ UNCHANGED <<last_command, arg, pc, transcription, parsed, result, outcome, ret,
                   failure, parse_calls, execute_calls, notifications, resumed,
                   returned>>
    /\ UNCHANGED <<parser_vars, config_vars>>

\* setup_callbacks is interrupted or raises
SetupRaise(k) ==
    /\ app_pc = "initializing"
    /\ Remaining = <<>>
    /\ Raise(k)

\* the return statement of run with the value of the mode runner
ReturnCode(code) ==
    /\ exit_code' = Some(code)
    /\ app_pc' = "finally"

\* the mode runner's work ends without an exception
ModeReturn(code) ==
    /\ app_pc = "mode"
    /\ ReturnCode(IF app_mode.server_only \/ app_mode.headless THEN 0 ELSE code)
    /\ UNCHANGED <<app_mode, running, created, pending, thrown, cleanup_calls, cleaned>>
    /\ UNCHANGED app_frame

\* the exceptions the mode runner turns into a return value itself
CaughtByRunner(m, k) ==
    IF m.server_only THEN k = "Exception"
    ELSE IF m.headless THEN k \in {"KeyboardInterrupt", "Exception"}
    ELSE k = "Exception"

\* the mode runner's work raises k
ModeRaise(k) ==
    /\ app_pc = "mode"
    /\ IF CaughtByRunner(app_mode, k)
       THEN /\ ReturnCode(IF k = "KeyboardInterrupt" THEN 0 ELSE 1)
            /\ thrown' = Some(k)
            /\ UNCHANGED <<app_mode, running, created, pending, cleanup_calls, cleaned>>
            /\ UNCHANGED app_frame
       ELSE Raise(k)


\* the except clauses of run when both answer 1
Handle_AllOne ==
    /\ app_pc = "except"
    /\ IF Val(pending) \in {"KeyboardInterrupt", "Exception"}
       THEN exit_code' = Some(1) /\ pending' = None
       ELSE UNCHANGED <<exit_code, pending>>
    /\ app_pc' = "finally"
    /\ UNCHANGED <<app_mode, running, created, thrown, cleanup_calls, cleaned>>
    /\ UNCHANGED app_frame

\* the except clauses of run: KeyboardInterrupt, then Exception; anything
\* else stays in flight
Handle ==
    /\ app_pc = "except"
    /\ IF Val(pending) = "KeyboardInterrupt"
       THEN exit_code' = Some(0) /\ pending' = None
       ELSE IF Val(pending) = "Exception"
       THEN exit_code' = Some(1) /\ pending' = None
       ELSE UNCHANGED <<exit_code, pending>>
    /\ app_pc' = "finally"
    /\ UNCHANGED <<app_mode, running, created, thrown, cleanup_calls, cleaned>>
    /\ UNCHANGED app_frame

\* the components cleanup looks at, in its order, and the positions of the
\* three tests
CleanupOrder == <<"audio_manager", "whisper_engine", "automation_manager">>
CleanupPc == <<"cleanup_audio", "cleanup_whisper", "cleanup_automation">>

\* where cleanup goes after its i-th test
After(i) == IF i < Len(CleanupOrder) THEN CleanupPc[i + 1] ELSE "end"

\* the finally clause calls cleanup, which clears running first
CleanupBegin ==
    /\ app_pc = "finally"
    /\ cleanup_calls' = cleanup_calls + 1
    /\ running' = FALSE
    /\ app_pc' = CleanupPc[1]
    /\ UNCHANGED <<app_mode, created, pending, thrown, cleaned, exit_code>>
    /\ UNCHANGED app_frame

\* cleanup: the i-th component is None and is passed over
Skip(i) ==
    /\ app_pc = CleanupPc[i]
    /\ CleanupOrder[i] \notin created
    /\ app_pc' = After(i)
    /\ UNCHANGED <<app_mode, running, created, pending, thrown, cleanup_calls, cleaned,
                   exit_code>>
    /\ UNCHANGED app_frame

\* cleanup: the i-th component exists and its stop / cleanup returns
Stop(i) ==
    /\ app_pc = CleanupPc[i]
    /\ CleanupOrder[i] \in created
    /\ cleaned' = Append(cleaned, CleanupOrder[i])
    /\ app_pc' = After(i)
    /\ UNCHANGED <<app_mode, running, created, pending, thrown, cleanup_calls, exit_code>>
    /\ UNCHANGED app_frame

\* cleanup: the i-th component's stop / cleanup raises; an Exception is
\* logged and ends cleanup, anything else leaves run through the finally
StopRaise(i, k) ==
    /\ app_pc = CleanupPc[i]
    /\ CleanupOrder[i] \in created
    /\ IF k = "Exception"
       THEN app_pc' = "end" /\ UNCHANGED pending
       ELSE app_pc' = "interrupted" /\ pending' = Some(k)
    /\ UNCHANGED <<app_mode, running, created, thrown, cleanup_calls, cleaned, exit_code>>
    /\ UNCHANGED app_frame

\* the finally clause is done: run returns its value, or the exception that
\* no clause caught goes on to the caller
RunEnd ==
    /\ app_pc = "end"
    /\ app_pc' = IF pending = None THEN "returned" ELSE "raised"
    /\ UNCHANGED <<app_mode, running, created, pending, thrown, cleanup_calls, cleaned,
                   exit_code>>
    /\ UNCHANGED app_frame

NextApp ==
    \/ RunBegin
    \/ Create
    \/ \E k \in Raises : CreateRaise(k)
    \/ RunSetupCallbacks
    \/ \E k \in Raises : SetupRaise(k)
    \/ \E code \in GuiExitCodes : ModeReturn(code)
    \/ \E k \in Raises : ModeRaise(k)
    \/ Handle
    \/ CleanupBegin
    \/ \E i \in 1..Len(CleanupOrder) : Skip(i)
    \/ \E i \in 1..Len(CleanupOrder) : Stop(i)
    \/ \E i \in 1..Len(CleanupOrder), k \in Raises : StopRaise(i, k)
    \/ RunEnd

SpecApp == InitApp /\ [][NextApp]_vars


(***************************************************************************)
(* Properties of Application.run                                           *)
(***************************************************************************)
\* cleanup ran once, running is cleared, and only created components were
\* stopped
CleanedUp ==
    /\ cleanup_calls = 1
    /\ running = FALSE
    /\ \A i \in 1..Len(cleaned) : cleaned[i] \in created
    /\ \A i, j \in 1..Len(cleaned) : cleaned[i] = cleaned[j] => i = j

C22_SystemExit ==
    /\ app_pc = "raised"
    /\ thrown = Some("SystemExit")
    /\ running = FALSE
    /\ cleanup_calls = 1
    /\ on_command_executed # None

====
